---------------------------- MODULE Spec2Model ----------------------------
(***************************************************************************)
(* Brain Dump: the rule-based note categorizer (Categorizer) and the note  *)
(* store that consumes it (Storage / App).                                 *)
(*                                                                         *)
(* A JavaScript string is modelled as a sequence of characters.  A         *)
(* character is a one-element token; characters outside ASCII carry an     *)
(* ASCII name: "a," "e," (ogonek), "c'" "n'" "o'" "s'" "z'" (acute),       *)
(* "l/" (stroke), "z." (dot above), their capitals "A," ... "Z.", "EUR",   *)
(* "BULLET", "LOWQUOTE"; "NL" is the line feed and "TAB" the tab.          *)
(***************************************************************************)
EXTENDS Integers, Sequences, FiniteSets, TLC

(***************************************************************************)
(* Characters and the string methods the program calls                     *)
(***************************************************************************)
UpperChars ==
  <<"A","B","C","D","E","F","G","H","I","J","K","L","M","N","O","P","Q","R",
    "S","T","U","V","W","X","Y","Z","A,","C'","E,","L/","N'","O'","S'","Z'","Z.">>

LowerChars ==
  <<"a","b","c","d","e","f","g","h","i","j","k","l","m","n","o","p","q","r",
    "s","t","u","v","w","x","y","z","a,","c'","e,","l/","n'","o'","s'","z'","z.">>

Range(f) == {f[i] : i \in DOMAIN f}

LowerOf == [c \in Range(UpperChars) |->
              LowerChars[CHOOSE i \in DOMAIN UpperChars : UpperChars[i] = c]]

UpperOf == [c \in Range(LowerChars) |->
              UpperChars[CHOOSE i \in DOMAIN LowerChars : LowerChars[i] = c]]

toLowerCaseChar(c) == IF c \in DOMAIN LowerOf THEN LowerOf[c] ELSE c

\* String.prototype.toLowerCase
toLowerCase(s) == [i \in 1..Len(s) |-> toLowerCaseChar(s[i])]

\* Canonicalize of a case-insensitive RegExp: the character's upper case
Canonicalize(c) == IF c \in DOMAIN UpperOf THEN UpperOf[c] ELSE c

LineTerminator == {"NL"}

\* \s : white space and line terminators
WhiteSpace == {" ", "TAB"} \cup LineTerminator

\* \d
Digit == {"0","1","2","3","4","5","6","7","8","9"}

\* \w : ASCII letters, digits and the underscore only
WordChar ==
  {"a","b","c","d","e","f","g","h","i","j","k","l","m","n","o","p","q","r",
   "s","t","u","v","w","x","y","z",
   "A","B","C","D","E","F","G","H","I","J","K","L","M","N","O","P","Q","R",
   "S","T","U","V","W","X","Y","Z","_"} \cup Digit

\* String.prototype.trim: from the first to the last character that is not
\* white space
trim(s) ==
  LET kept == {i \in 1..Len(s) : s[i] \notin WhiteSpace}
  IN  IF kept = {} THEN <<>>
      ELSE SubSeq(s, CHOOSE i \in kept : \A j \in kept : i <= j,
                     CHOOSE i \in kept : \A j \in kept : j <= i)

\* String.prototype.includes
includes(s, k) ==
  \E i \in 0..(Len(s) - Len(k)) : \A j \in 1..Len(k) : s[i + j] = k[j]

\* String.prototype.slice(1)
slice1(s) == SubSeq(s, 2, Len(s))

(***************************************************************************)
(* Regular expressions.  Every literal of the program is a sequence of     *)
(* items: a character class with a repetition count, ^, $, or a group of   *)
(* alternative words.                                                      *)
(***************************************************************************)
Class(S, negated, lo, hi, unbounded) ==
  [t |-> "class", cs |-> S, neg |-> negated, lo |-> lo, hi |-> hi,
   unbounded |-> unbounded]

One(S)         == Class(S, FALSE, 1, 1, FALSE)      \* [S]
Rep(S, lo, hi) == Class(S, FALSE, lo, hi, FALSE)    \* [S]{lo,hi}
Many(S, lo)    == Class(S, FALSE, lo, lo, TRUE)     \* [S]* and [S]+
ManyNot(S, lo) == Class(S, TRUE, lo, lo, TRUE)      \* [^S]+
Bol            == [t |-> "bol"]                     \* ^
Eol            == [t |-> "eol"]                     \* $
Words(ws)      == [t |-> "words", ws |-> ws]        \* (w1|w2|...)
Lit(w)         == Words(<<w>>)

RegExp(items, ignoreCase, multiline) ==
  [items |-> items, i |-> ignoreCase, m |-> multiline]

SameChar(c, d, ignoreCase) ==
  IF ignoreCase THEN Canonicalize(c) = Canonicalize(d) ELSE c = d

CharIn(c, S, ignoreCase) ==
  IF ignoreCase THEN \E d \in S : Canonicalize(d) = Canonicalize(c)
  ELSE c \in S

\* the positions at which a match of one item that starts after the first p
\* characters of s can end
ItemEnds(it, s, p, re) ==
  CASE it.t = "class" ->
         LET last == IF it.unbounded \/ p + it.hi > Len(s) THEN Len(s)
                     ELSE p + it.hi
         IN  {j \in (p + it.lo)..last :
                \A k \in (p + 1)..j : CharIn(s[k], it.cs, re.i) # it.neg}
    [] it.t = "bol" ->
         IF p = 0 \/ (re.m /\ s[p] \in LineTerminator) THEN {p} ELSE {}
    [] it.t = "eol" ->
         IF p = Len(s) \/ (re.m /\ s[p + 1] \in LineTerminator)
         THEN {p} ELSE {}
    [] it.t = "words" ->
         {p + Len(it.ws[w]) : w \in
            {v \in DOMAIN it.ws :
               /\ p + Len(it.ws[v]) <= Len(s)
               /\ \A j \in 1..Len(it.ws[v]) :
                    SameChar(s[p + j], it.ws[v][j], re.i)}}

\* the positions at which a match of the whole literal that starts after
\* the first i characters of s can end
Ends(re, s, i) ==
  LET reached[k \in 0..Len(re.items)] ==
        IF k = 0 THEN {i}
        ELSE UNION {ItemEnds(re.items[k], s, p, re) : p \in reached[k - 1]}
  IN  reached[Len(re.items)]

\* RegExp.prototype.test of a literal without the g flag: a search
test(re, s) == \E i \in 0..Len(s) : Ends(re, s, i) # {}

SetMax(S) == CHOOSE x \in S : \A y \in S : y <= x

\* The end of the match the backtracking matcher returns at start i for the
\* tag literals, a character followed by a greedy \w+ : the longest one
MatchEnd(re, s, i) == SetMax(Ends(re, s, i))

\* String.prototype.match with a g literal: the matches from left to right,
\* each search resuming where the previous match ended
RECURSIVE match(_, _, _)
match(re, s, from) ==
  IF \A i \in from..Len(s) : Ends(re, s, i) = {} THEN <<>>
  ELSE LET i == CHOOSE a \in from..Len(s) :
                  /\ Ends(re, s, a) # {}
                  /\ \A b \in from..(a - 1) : Ends(re, s, b) = {}
           e == MatchEnd(re, s, i)
       IN  <<SubSeq(s, i + 1, e)>> \o match(re, s, e)

(***************************************************************************)
(* The pattern literals of the category table                              *)
(***************************************************************************)
Currency == << <<"z","l/">>, <<"p","l","n">>, <<"EUR">>, <<"$">> >>

Weekdays ==
  << <<"p","o","n","i","e","d","z","i","a","l/","e","k">>,
     <<"w","t","o","r","e","k">>,
     <<"s'","r","o","d","a">>,
     <<"c","z","w","a","r","t","e","k">>,
     <<"p","i","a,","t","e","k">>,
     <<"s","o","b","o","t","a">>,
     <<"n","i","e","d","z","i","e","l","a">> >>

Months ==
  << <<"s","t","y","c","z","e","n'">>,
     <<"l","u","t","y">>,
     <<"m","a","r","z","e","c">>,
     <<"k","w","i","e","c","i","e","n'">>,
     <<"m","a","j">>,
     <<"c","z","e","r","w","i","e","c">>,
     <<"l","i","p","i","e","c">>,
     <<"s","i","e","r","p","i","e","n'">>,
     <<"w","r","z","e","s","i","e","n'">>,
     <<"p","a","z'","d","z","i","e","r","n","i","k">>,
     <<"l","i","s","t","o","p","a","d">>,
     <<"g","r","u","d","z","i","e","n'">> >>

QuestionWords ==
  << <<"j","a","k">>, <<"d","l","a","c","z","e","g","o">>,
     <<"k","i","e","d","y">>, <<"g","d","z","i","e">>, <<"k","t","o">>,
     <<"c","o">>, <<"c","z","y">> >>

Patterns ==
  [ \* /^[-BULLET\*]\s/m
    re_bullet |-> RegExp(<<Bol, One({"-", "BULLET", "*"}), One(WhiteSpace)>>,
                         FALSE, TRUE),
    \* /^\d+[\.\)]\s/m
    re_numbered |-> RegExp(<<Bol, Many(Digit, 1), One({".", ")"}),
                             One(WhiteSpace)>>, FALSE, TRUE),
    \* /do zrobienia/i
    re_do_zrobienia |->
      RegExp(<<Lit(<<"d","o"," ","z","r","o","b","i","e","n","i","a">>)>>,
             TRUE, FALSE),
    \* /lista/i
    re_lista |-> RegExp(<<Lit(<<"l","i","s","t","a">>)>>, TRUE, FALSE),
    \* /^co (jesli|gdyby)/i
    re_co_jesli |->
      RegExp(<<Bol, Lit(<<"c","o"," ">>),
               Words(<< <<"j","e","s'","l","i">>,
                        <<"g","d","y","b","y">> >>)>>, TRUE, FALSE),
    \* /^a (moze|gdyby)/i
    re_a_moze |->
      RegExp(<<Bol, Lit(<<"a"," ">>),
               Words(<< <<"m","o","z.","e">>,
                        <<"g","d","y","b","y">> >>)>>, TRUE, FALSE),
    \* /!/
    re_bang |-> RegExp(<<One({"!"})>>, FALSE, FALSE),
    \* /\?$/
    re_qmark_end |-> RegExp(<<One({"?"}), Eol>>, FALSE, FALSE),
    \* /\?[\.!\s]*$/
    re_qmark_tail |->
      RegExp(<<One({"?"}), Many({".", "!"} \cup WhiteSpace, 0), Eol>>,
             FALSE, FALSE),
    \* /^(jak|dlaczego|kiedy|gdzie|kto|co|czy)/i
    re_question_word |-> RegExp(<<Bol, Words(QuestionWords)>>, TRUE, FALSE),
    \* /@\w+/
    re_mention |-> RegExp(<<One({"@"}), Many(WordChar, 1)>>, FALSE, FALSE),
    \* /deadline/i
    re_deadline |-> RegExp(<<Lit(<<"d","e","a","d","l","i","n","e">>)>>,
                           TRUE, FALSE),
    \* /ASAP/i
    re_asap |-> RegExp(<<Lit(<<"A","S","A","P">>)>>, TRUE, FALSE),
    \* /\d+\s*(zl|pln|EUR|\$)/i
    re_price |->
      RegExp(<<Many(Digit, 1), Many(WhiteSpace, 0), Words(Currency)>>,
             TRUE, FALSE),
    \* /kupic/i
    re_kupic |-> RegExp(<<Lit(<<"k","u","p","i","c'">>)>>, TRUE, FALSE),
    \* /\d{1,2}[\.\/\-]\d{1,2}/
    re_date |->
      RegExp(<<Rep(Digit, 1, 2), One({".", "/", "-"}), Rep(Digit, 1, 2)>>,
             FALSE, FALSE),
    \* /o\s+\d{1,2}:\d{2}/
    re_hour |->
      RegExp(<<One({"o"}), Many(WhiteSpace, 1), Rep(Digit, 1, 2),
               One({":"}), Rep(Digit, 2, 2)>>, FALSE, FALSE),
    \* /(poniedzialek|wtorek|sroda|czwartek|piatek|sobota|niedziela)/i
    re_weekday |-> RegExp(<<Words(Weekdays)>>, TRUE, FALSE),
    \* /(styczen|luty|marzec|...|grudzien)/i
    re_month |-> RegExp(<<Words(Months)>>, TRUE, FALSE),
    \* /^["LOWQUOTE"]/
    re_quote_open |-> RegExp(<<Bol, One({"\"", "LOWQUOTE"})>>, FALSE, FALSE),
    \* /[""]$/
    re_quote_close |-> RegExp(<<One({"\""}), Eol>>, FALSE, FALSE),
    \* /\d{3}[\s\-]?\d{3}[\s\-]?\d{3}/
    re_phone |->
      RegExp(<<Rep(Digit, 3, 3), Rep(WhiteSpace \cup {"-"}, 0, 1),
               Rep(Digit, 3, 3), Rep(WhiteSpace \cup {"-"}, 0, 1),
               Rep(Digit, 3, 3)>>, FALSE, FALSE),
    \* /\S+@\S+\.\S+/
    re_email |->
      RegExp(<<ManyNot(WhiteSpace, 1), One({"@"}), ManyNot(WhiteSpace, 1),
               One({"."}), ManyNot(WhiteSpace, 1)>>, FALSE, FALSE),
    \* /\d+\s*(zl|pln|EUR|\$|tys)/i
    re_amount |->
      RegExp(<<Many(Digit, 1), Many(WhiteSpace, 0),
               Words(Currency \o << <<"t","y","s">> >>)>>, TRUE, FALSE) ]

\* /#\w+/g and /@\w+/g of extractTags
HashtagRe == RegExp(<<One({"#"}), Many(WordChar, 1)>>, FALSE, FALSE)
MentionRe == RegExp(<<One({"@"}), Many(WordChar, 1)>>, FALSE, FALSE)

(***************************************************************************)
(* The category table as the source ships it, in insertion order           *)
(***************************************************************************)
InitialCategories ==
  <<
    [name |-> <<"z","a","d","a","n","i","e">>,
     icon |-> "check_mark",
     keywords |-> <<
        <<"z","r","o","b","i","c'">>,
        <<"k","u","p","i","c'">>,
        <<"z","a","d","z","w","o","n","i","c'">>,
        <<"w","y","s","l/","a","c'">>,
        <<"s","p","r","a","w","d","z","i","c'">>,
        <<"n","a","p","r","a","w","i","c'">>,
        <<"u","m","o'","w","i","c'">>,
        <<"z","a","p","l/","a","c","i","c'">>,
        <<"o","d","d","a","c'">>,
        <<"o","d","e","b","r","a","c'">>,
        <<"p","r","z","y","g","o","t","o","w","a","c'">>,
        <<"d","o","k","o","n'","c","z","y","c'">>,
        <<"t","o","d","o">>,
        <<"t","a","s","k">>,
        <<"m","u","s","t">>,
        <<"t","r","z","e","b","a">>,
        <<"m","u","s","z","e,">>,
        <<"n","a","l","e","z.","y">>,
        <<"p","a","m","i","e,","t","a","j">> >>,
     patterns |-> <<"re_bullet", "re_numbered", "re_do_zrobienia", "re_lista">>],
    [name |-> <<"p","o","m","y","s","l/">>,
     icon |-> "light_bulb",
     keywords |-> <<
        <<"p","o","m","y","s","l/">>,
        <<"i","d","e","a">>,
        <<"m","o","z.","e">>,
        <<"m","o","z.","n","a"," ","b","y">>,
        <<"c","o"," ","j","e","s'","l","i">>,
        <<"a"," ","g","d","y","b","y">>,
        <<"w","a","r","t","o"," ","b","y">>,
        <<"f","a","j","n","i","e"," ","b","y"," ","b","y","l/","o">>,
        <<"k","o","n","c","e","p","t">>,
        <<"i","n","n","o","w","a","c","j","a">>,
        <<"p","r","o","j","e","k","t">> >>,
     patterns |-> <<"re_co_jesli", "re_a_moze", "re_bang">>],
    [name |-> <<"p","y","t","a","n","i","e">>,
     icon |-> "question_mark",
     keywords |-> <<
        <<"d","l","a","c","z","e","g","o">>,
        <<"j","a","k">>,
        <<"k","i","e","d","y">>,
        <<"g","d","z","i","e">>,
        <<"k","t","o">>,
        <<"c","o">>,
        <<"c","z","y">>,
        <<"k","t","o'","r","y">>,
        <<"i","l","e">>,
        <<"c","z","e","m","u">>,
        <<"p","o"," ","c","o">>,
        <<"s","k","a,","d">> >>,
     patterns |-> <<"re_qmark_end", "re_qmark_tail", "re_question_word">>],
    [name |-> <<"p","r","a","c","a">>,
     icon |-> "briefcase",
     keywords |-> <<
        <<"s","p","o","t","k","a","n","i","e">>,
        <<"m","e","e","t","i","n","g">>,
        <<"d","e","a","d","l","i","n","e">>,
        <<"p","r","o","j","e","k","t">>,
        <<"k","l","i","e","n","t">>,
        <<"s","z","e","f">>,
        <<"z","e","s","p","o'","l/">>,
        <<"p","r","e","z","e","n","t","a","c","j","a">>,
        <<"r","a","p","o","r","t">>,
        <<"e","m","a","i","l">>,
        <<"m","a","i","l">>,
        <<"f","i","r","m","a">>,
        <<"b","i","u","r","o">>,
        <<"p","r","a","c","a">>,
        <<"z","l","e","c","e","n","i","e">>,
        <<"k","o","n","t","r","a","k","t">>,
        <<"u","m","o","w","a">>,
        <<"f","a","k","t","u","r","a">> >>,
     patterns |-> <<"re_mention", "re_deadline", "re_asap">>],
    [name |-> <<"z","a","k","u","p","y">>,
     icon |-> "shopping_cart",
     keywords |-> <<
        <<"k","u","p","i","c'">>,
        <<"s","k","l","e","p">>,
        <<"z","a","k","u","p","y">>,
        <<"l","i","s","t","a"," ","z","a","k","u","p","o'","w">>,
        <<"z","a","m","o'","w","i","c'">>,
        <<"c","e","n","a">>,
        <<"p","r","o","m","o","c","j","a">>,
        <<"r","a","b","a","t">>,
        <<"a","l","l","e","g","r","o">>,
        <<"a","m","a","z","o","n">>,
        <<"o","l","x">> >>,
     patterns |-> <<"re_price", "re_kupic">>],
    [name |-> <<"w","y","d","a","r","z","e","n","i","e">>,
     icon |-> "calendar",
     keywords |-> <<
        <<"s","p","o","t","k","a","n","i","e">>,
        <<"w","i","z","y","t","a">>,
        <<"u","r","o","d","z","i","n","y">>,
        <<"r","o","c","z","n","i","c","a">>,
        <<"i","m","p","r","e","z","a">>,
        <<"k","o","n","c","e","r","t">>,
        <<"w","y","j","a","z","d">>,
        <<"l","o","t">>,
        <<"r","e","z","e","r","w","a","c","j","a">>,
        <<"t","e","r","m","i","n">>,
        <<"d","a","t","a">> >>,
     patterns |-> <<"re_date", "re_hour", "re_weekday", "re_month">>],
    [name |-> <<"n","o","t","a","t","k","a">>,
     icon |-> "memo",
     keywords |-> <<
        <<"n","o","t","a","t","k","a">>,
        <<"z","a","p","a","m","i","e,","t","a","c'">>,
        <<"w","a","z.","n","e">>,
        <<"u","w","a","g","a">>,
        <<"i","n","f","o">>,
        <<"i","n","f","o","r","m","a","c","j","a">> >>,
     patterns |-> <<>>],
    [name |-> <<"i","n","s","p","i","r","a","c","j","a">>,
     icon |-> "sparkles",
     keywords |-> <<
        <<"c","y","t","a","t">>,
        <<"m","o","t","y","w","a","c","j","a">>,
        <<"i","n","s","p","i","r","a","c","j","a">>,
        <<"m","a","r","z","e","n","i","e">>,
        <<"c","e","l">>,
        <<"s","u","k","c","e","s">>,
        <<"m","o","t","t","o">>,
        <<"z.","y","c","i","e">>,
        <<"p","r","z","y","s","z","l/","o","s'","c'">>,
        <<"w","i","z","j","a">> >>,
     patterns |-> <<"re_quote_open", "re_quote_close">>],
    [name |-> <<"k","o","n","t","a","k","t">>,
     icon |-> "bust",
     keywords |-> <<
        <<"t","e","l","e","f","o","n">>,
        <<"n","u","m","e","r">>,
        <<"a","d","r","e","s">>,
        <<"e","m","a","i","l">>,
        <<"k","o","n","t","a","k","t">>,
        <<"o","s","o","b","a">> >>,
     patterns |-> <<"re_phone", "re_email">>],
    [name |-> <<"f","i","n","a","n","s","e">>,
     icon |-> "money_bag",
     keywords |-> <<
        <<"p","i","e","n","i","a,","d","z","e">>,
        <<"k","a","s","a">>,
        <<"p","r","z","e","l","e","w">>,
        <<"r","a","c","h","u","n","e","k">>,
        <<"o","p","l/","a","t","a">>,
        <<"r","a","t","a">>,
        <<"k","r","e","d","y","t">>,
        <<"o","s","z","c","z","e,","d","n","o","s'","c","i">>,
        <<"b","u","d","z.","e","t">>,
        <<"w","y","d","a","t","e","k">>,
        <<"k","o","s","z","t">>,
        <<"p","e","n","s","j","a">> >>,
     patterns |-> <<"re_amount">>],
    [name |-> <<"z","d","r","o","w","i","e">>,
     icon |-> "hospital",
     keywords |-> <<
        <<"l","e","k","a","r","z">>,
        <<"w","i","z","y","t","a">>,
        <<"l","e","k">>,
        <<"t","a","b","l","e","t","k","i">>,
        <<"r","e","c","e","p","t","a">>,
        <<"b","a","d","a","n","i","e">>,
        <<"d","e","n","t","y","s","t","a">>,
        <<"s","z","p","i","t","a","l">>,
        <<"z","d","r","o","w","i","e">>,
        <<"d","i","e","t","a">>,
        <<"t","r","e","n","i","n","g">>,
        <<"s","i","l/","o","w","n","i","a">> >>,
     patterns |-> <<>>]
  >>

(***************************************************************************)
(* JavaScript values passed to and returned by the Categorizer             *)
(***************************************************************************)
Str(s)    == [type |-> "string", val |-> s]
Num(ds)   == [type |-> "number", val |-> ds]
Undefined == [type |-> "undefined", val |-> <<>>]
Null      == [type |-> "null", val |-> <<>>]
PlainObj  == [type |-> "object", val |-> <<>>]

\* ToBoolean: "", 0, null and undefined are falsy
ToBoolean(v) ==
  CASE v.type = "string" -> v.val # <<>>
    [] v.type = "number" -> v.val # <<"0">>
    [] v.type = "object" -> TRUE
    [] OTHER             -> FALSE

\* the typeof operator
typeof(v) == IF v.type = "null" THEN "object" ELSE v.type

\* ToPropertyKey: the property name a value denotes in obj[value]
ToPropertyKey(v) ==
  CASE v.type = "string"    -> v.val
    [] v.type = "number"    -> v.val
    [] v.type = "undefined" -> <<"u","n","d","e","f","i","n","e","d">>
    [] v.type = "null"      -> <<"n","u","l","l">>
    [] v.type = "object"    ->
         <<"[","o","b","j","e","c","t"," ","O","b","j","e","c","t","]">>

\* Properties the table, an object literal, inherits from Object.prototype
ObjectPrototypeKeys ==
  { <<"c","o","n","s","t","r","u","c","t","o","r">>,
    <<"t","o","S","t","r","i","n","g">>,
    <<"v","a","l","u","e","O","f">>,
    <<"h","a","s","O","w","n","P","r","o","p","e","r","t","y">>,
    <<"_","_","p","r","o","t","o","_","_">> }

notatka == <<"n","o","t","a","t","k","a">>

\* Object.keys of the table
Keys(cats) == {cats[i].name : i \in DOMAIN cats}

\* this.categories[key]: an own entry, an inherited member, or undefined
Get(cats, key) ==
  IF key \in Keys(cats)
  THEN [kind |-> "own", at |-> CHOOSE i \in DOMAIN cats : cats[i].name = key]
  ELSE IF key \in ObjectPrototypeKeys
       THEN [kind |-> "inherited", at |-> 0]
       ELSE [kind |-> "undefined", at |-> 0]

(***************************************************************************)
(* Inputs                                                                  *)
(***************************************************************************)
MaxChunks == 2
MaxAdded  == 2
MaxNotes  == 2

Chunks ==
  { <<"k","u","p","i","c'">>,
    <<"C","o">>,
    <<" ">>,
    <<"?">>,
    <<"#">> }

Samples ==
  { <<"k","u","p","i","c'"," ","5","z","l/">>,
    <<"@","C","o">>,
    <<"C","o","?"," ">>,
    <<"m","u","s","z","e,"," ","z","a","d","z","w","o","n","i","c'"," ",
      "d","o"," ","m","a","m","y">>,
    <<"d","l","a","c","z","e","g","o"," ","n","i","e","b","o"," ",
      "j","e","s","t"," ","n","i","e","b","i","e","s","k","i","e","?">>,
    <<"c","h","e","c","k"," ","#","w","o","r","k"," ","@","b","o","s","s",
      " ","n","o","w">>,
    <<"c","z","y"," ","k","t","o"," ","j","a","k"," ","c","o","?">>,
    <<"s","p","o","t","k","a","n","i","e">>,
    <<"O"," ","1","0",":","3","0">>,
    <<"o"," ","1","0",":","3","0">>,
    <<"-"," ","l","i","s","t","a","NL","1","."," ","t","o","d","o">>,
    <<"#","a","#","b"," ","#","#","c"," ","@","d","_","1"," ","#","a",
      " ","@","a">>,
    <<"j","a","n","@","x",".","p","l"," ","1","2","3","-","4","5","6","-",
      "7","8","9">> }

\* the chunks of cs in a row
Concat(cs) ==
  LET joined[k \in 0..Len(cs)] ==
        IF k = 0 THEN <<>> ELSE joined[k - 1] \o cs[k]
  IN  joined[Len(cs)]

\* the texts: up to MaxChunks chunks in a row, and the samples
Texts ==
  {Concat(cs) : cs \in UNION {[1..n -> Chunks] : n \in 0..MaxChunks}}
  \cup Samples

\* arguments that are not text
NonStrings == {Undefined, Null, Num(<<"0">>), Num(<<"5">>), PlainObj}

TextArgs == {Str(t) : t \in Texts} \cup NonStrings

zadanie == <<"z","a","d","a","n","i","e">>

CategoryArgs ==
  { Str(zadanie), Str(notatka),
    Str(<<"n","o","_","s","u","c","h","_","c","a","t","e","g","o","r","y">>),
    Str(<<"c","o","n","s","t","r","u","c","t","o","r">>),
    Undefined }

KeywordArgs ==
  { Str(<<"K","U","P","I","C'">>), Str(<<"C","o"," ">>),
    Undefined, Num(<<"5">>) }

\* readings of Date.now(), the wall clock
Times == {1, 2}

\* what the user may have typed into a textarea
TextareaValues ==
  { <<>>,
    <<" "," ">>,
    <<" ","k","u","p","i","c'"," ">>,
    <<"#","a"," ","#","a"," ","C","o","?">> }

(***************************************************************************)
(* test and includes are pure: their values on the texts, patterns and     *)
(* keywords above are tabulated once; elsewhere they are computed          *)
(***************************************************************************)
InputTexts == {t : t \in Texts \cup {trim(v) : v \in TextareaValues}}

NormalizedTexts == {trim(toLowerCase(t)) : t \in InputTexts}

KnownKeywords ==
  {k : k \in
     UNION {Range(InitialCategories[i].keywords) :
              i \in DOMAIN InitialCategories}
     \cup {toLowerCase(a.val) : a \in {a \in KeywordArgs : a.type = "string"}}}

TestTable ==
  [p \in DOMAIN Patterns |-> [t \in InputTexts |-> test(Patterns[p], t)]]

IncludesTable ==
  [t \in NormalizedTexts |->
     [k \in KnownKeywords |-> includes(t, toLowerCase(k))]]

\* pattern.test(text) for the pattern literal named p
testPattern(p, text) ==
  IF text \in InputTexts THEN TestTable[p][text] ELSE test(Patterns[p], text)

\* normalizedText.includes(keyword.toLowerCase())
includesKeyword(normalizedText, keyword) ==
  IF normalizedText \in NormalizedTexts /\ keyword \in KnownKeywords
  THEN IncludesTable[normalizedText][keyword]
  ELSE includes(normalizedText, toLowerCase(keyword))

(***************************************************************************)
(* Categorizer.categorize                                                  *)
(***************************************************************************)
maxPossibleScore == 15

\* for (const keyword of categoryData.keywords) ... score += 2
keywordLoop(keywords, normalizedText, score) ==
  LET after[k \in 0..Len(keywords)] ==
        IF k = 0 THEN score
        ELSE IF includesKeyword(normalizedText, keywords[k])
             THEN after[k - 1] + 2 ELSE after[k - 1]
  IN  after[Len(keywords)]

\* for (const pattern of categoryData.patterns) ... score += 3
patternLoop(patterns, text, score) ==
  LET after[k \in 0..Len(patterns)] ==
        IF k = 0 THEN score
        ELSE IF testPattern(patterns[k], text)
             THEN after[k - 1] + 3 ELSE after[k - 1]
  IN  after[Len(patterns)]

\* variant: the patterns are tested on the normalized text
scoreOfNormalized(categoryData, text, normalizedText) ==
  patternLoop(categoryData.patterns, normalizedText,
              keywordLoop(categoryData.keywords, normalizedText, 0))

\* the body of the scoring loop for one table entry
scoreOf(categoryData, text, normalizedText) ==
  patternLoop(categoryData.patterns, text,
              keywordLoop(categoryData.keywords, normalizedText, 0))

\* the scores object, in the order its keys were inserted
scoresOf(cats, text) ==
  LET normalizedText == trim(toLowerCase(text))
  IN  [i \in DOMAIN cats |->
         [category |-> cats[i].name,
          score |-> scoreOf(cats[i], text, normalizedText)]]

\* variant: >= in place of >, a later equal score overwrites
bestLoopLastWins(scores, bestCategory, maxScore) ==
  LET after[k \in 0..Len(scores)] ==
        IF k = 0 THEN [category |-> bestCategory, score |-> maxScore]
        ELSE LET best == after[k - 1]
             IN  IF scores[k].score >= best.score
                 THEN [category |-> scores[k].category,
                       score |-> scores[k].score]
                 ELSE best
  IN  after[Len(scores)]

\* for (const [category, score] of Object.entries(scores))
bestLoop(scores, bestCategory, maxScore) ==
  LET after[k \in 0..Len(scores)] ==
        IF k = 0 THEN [category |-> bestCategory, score |-> maxScore]
        ELSE LET best == after[k - 1]
             IN  IF scores[k].score > best.score
                 THEN [category |-> scores[k].category,
                       score |-> scores[k].score]
                 ELSE best
  IN  after[Len(scores)]

\* variant: bestScore / maxPossibleScore without Math.min
confidenceUncapped(bestScore) ==
  [num |-> bestScore, den |-> maxPossibleScore]

\* Math.min(bestScore / maxPossibleScore, 1) as a fraction
confidenceOf(bestScore) ==
  IF bestScore < maxPossibleScore
  THEN [num |-> bestScore, den |-> maxPossibleScore]
  ELSE [num |-> 1, den |-> 1]

\* variant: the guard clause tests !text only
categorizeTraceFalsyGuard(cats, text) ==
  IF ~ToBoolean(text)
  THEN [value  |-> [category |-> notatka, icon |-> "memo",
                    confidence |-> [num |-> 0, den |-> 1]],
        scores |-> <<>>]
  ELSE LET scores == scoresOf(cats, text.val)
           best   == bestLoop(scores, notatka, 0)
       IN  [value  |-> [category   |-> best.category,
                        icon       |-> cats[Get(cats, best.category).at].icon,
                        confidence |-> confidenceOf(best.score)],
            scores |-> scores]

\* categorize(text): the returned object, with the scores object the call
\* built on the way (empty when the guard clause returned)
categorizeTrace(cats, text) ==
  IF ~ToBoolean(text) \/ typeof(text) # "string"
  THEN [value  |-> [category |-> notatka, icon |-> "memo",
                    confidence |-> [num |-> 0, den |-> 1]],
        scores |-> <<>>]
  ELSE LET scores == scoresOf(cats, text.val)
           best   == bestLoop(scores, notatka, 0)
       IN  [value  |-> [category   |-> best.category,
                        icon       |-> cats[Get(cats, best.category).at].icon,
                        confidence |-> confidenceOf(best.score)],
            scores |-> scores]

\* categorize is pure: its results on the seed table are tabulated once
CategorizeTable ==
  [text \in {a : a \in TextArgs \cup {Str(t) : t \in InputTexts}} |->
     categorizeTrace(InitialCategories, text)]

\* categorize(text) with its scores object, through the table where it applies
categorizeCall(cats, text) ==
  IF cats = InitialCategories /\ text \in DOMAIN CategorizeTable
  THEN CategorizeTable[text]
  ELSE categorizeTrace(cats, text)

categorize(cats, text) == categorizeCall(cats, text).value

(***************************************************************************)
(* Categorizer.getAllCategories, addKeyword, extractTags                   *)
(***************************************************************************)
getAllCategories(cats) ==
  [i \in DOMAIN cats |-> [name |-> cats[i].name, icon |-> cats[i].icon]]

\* variant: unshift in place of push
addKeywordUnshift(cats, category, keyword) ==
  LET found == Get(cats, ToPropertyKey(category))
  IN  IF found.kind = "undefined"
      THEN [categories |-> cats, thrown |-> FALSE]
      ELSE IF found.kind = "inherited" \/ typeof(keyword) # "string"
      THEN [categories |-> cats, thrown |-> TRUE]
      ELSE [categories |->
              [cats EXCEPT ![found.at].keywords =
                 <<toLowerCase(keyword.val)>> \o @],
            thrown |-> FALSE]

\* variant: a keyword already in the list is not appended again
addKeywordDedup(cats, category, keyword) ==
  LET found == Get(cats, ToPropertyKey(category))
  IN  IF found.kind = "undefined"
      THEN [categories |-> cats, thrown |-> FALSE]
      ELSE IF found.kind = "inherited" \/ typeof(keyword) # "string"
      THEN [categories |-> cats, thrown |-> TRUE]
      ELSE IF toLowerCase(keyword.val) \in Range(cats[found.at].keywords)
      THEN [categories |-> cats, thrown |-> FALSE]
      ELSE [categories |->
              [cats EXCEPT ![found.at].keywords =
                 Append(@, toLowerCase(keyword.val))],
            thrown |-> FALSE]

\* addKeyword(category, keyword): the table afterwards and whether a
\* TypeError was thrown
addKeyword(cats, category, keyword) ==
  LET found == Get(cats, ToPropertyKey(category))
  IN  IF found.kind = "undefined"
      THEN [categories |-> cats, thrown |-> FALSE]
      ELSE IF found.kind = "inherited"
      \* the inherited member has no keywords: undefined.push
      THEN [categories |-> cats, thrown |-> TRUE]
      ELSE IF typeof(keyword) # "string"
      \* keyword.toLowerCase is not a function
      THEN [categories |-> cats, thrown |-> TRUE]
      ELSE [categories |->
              [cats EXCEPT ![found.at].keywords =
                 Append(@, toLowerCase(keyword.val))],
            thrown |-> FALSE]

\* variant: the list is returned without removing duplicates
uniqueKeepAll(tags) == tags

\* [...new Set(tags)]: first occurrences, in order
RECURSIVE unique(_)
unique(tags) ==
  IF tags = <<>> THEN <<>>
  ELSE LET init == unique(SubSeq(tags, 1, Len(tags) - 1))
           last == tags[Len(tags)]
       IN  IF last \in Range(init) THEN init ELSE Append(init, last)

\* extractTags(text): the returned list and whether a TypeError was thrown
extractTags(text) ==
  IF typeof(text) # "string"
  \* text.match is not a function, or text is undefined / null
  THEN [tags |-> <<>>, thrown |-> TRUE]
  ELSE LET hashtagMatches == match(HashtagRe, text.val, 0)
           mentionMatches == match(MentionRe, text.val, 0)
           tags == [i \in DOMAIN hashtagMatches |->
                      slice1(hashtagMatches[i])]
                   \o [i \in DOMAIN mentionMatches |->
                         slice1(mentionMatches[i])]
       IN  [tags |-> unique(tags), thrown |-> FALSE]

(***************************************************************************)
(* State                                                                   *)
(***************************************************************************)
VARIABLES
  categories,   \* Categorizer.categories, in insertion order
  result,       \* the call whose outcome the caller is receiving
  notes,        \* the list stored under Storage.KEY, newest first
  currentEditId,\* UI.currentEditId, 0 for null
  nextId        \* the number of ids generateId has handed out, plus one
coreVars == <<categories, result>>
appVars  == <<notes, currentEditId, nextId>>
vars     == <<categories, result, notes, currentEditId, nextId>>

NoCall == [op |-> "none"]

RECURSIVE SumLen(_, _)
SumLen(cats, k) ==
  IF k > Len(cats) THEN 0 ELSE Len(cats[k].keywords) + SumLen(cats, k + 1)

\* the number of keywords appended since start
Added(cats) == SumLen(cats, 1) - SumLen(InitialCategories, 1)

Init ==
  /\ categories = InitialCategories
  /\ result = NoCall
  /\ notes = <<>>
  /\ currentEditId = 0
  /\ nextId = 1

(***************************************************************************)
(* Calls on the Categorizer, one at a time                                 *)
(***************************************************************************)
Categorize ==
  /\ result.op = "none"
  /\ \E text \in TextArgs :
       LET r == categorizeCall(categories, text)
       IN  result' = [op |-> "categorize", args |-> <<text>>,
                      thrown |-> FALSE, value |-> r.value,
                      scores |-> r.scores]
  /\ UNCHANGED <<categories, appVars>>

ExtractTags ==
  /\ result.op = "none"
  /\ \E text \in TextArgs :
       LET r == extractTags(text)
       IN  result' = [op |-> "extractTags", args |-> <<text>>,
                      thrown |-> r.thrown, value |-> r.tags]
  /\ UNCHANGED <<categories, appVars>>

GetAllCategories ==
  /\ result.op = "none"
  /\ result' = [op |-> "getAllCategories", args |-> <<>>, thrown |-> FALSE,
                value |-> getAllCategories(categories)]
  /\ UNCHANGED <<categories, appVars>>

AddKeyword ==
  /\ result.op = "none"
  /\ \E category \in CategoryArgs, keyword \in KeywordArgs :
       LET r == addKeyword(categories, category, keyword)
       IN  /\ Added(r.categories) <= MaxAdded
           /\ categories' = r.categories
           /\ result' = [op |-> "addKeyword", args |-> <<category, keyword>>,
                         thrown |-> r.thrown, value |-> Undefined]
  /\ UNCHANGED appVars

\* the call has returned (or thrown) to its caller; the next call can start
Return ==
  /\ result.op # "none"
  /\ result' = NoCall
  /\ UNCHANGED <<categories, appVars>>

Next ==
  \/ Categorize
  \/ ExtractTags
  \/ GetAllCategories
  \/ AddKeyword
  \/ Return

Spec == Init /\ [][Next]_vars

(***************************************************************************)
(* Storage: the note list kept in localStorage                             *)
(***************************************************************************)
\* Array.prototype.findIndex(n => n.id === id), 0 for -1
findIndex(ns, id) ==
  IF \E i \in DOMAIN ns : ns[i].id = id
  THEN CHOOSE i \in DOMAIN ns :
         ns[i].id = id /\ \A j \in 1..(i - 1) : ns[j].id # id
  ELSE 0

\* Storage.add: the list to save
StorageAdd(ns, note) == <<note>> \o ns

\* variant: the category stored at creation is kept on an edit
StorageUpdateKeepCategory(cats, ns, id, newContent, time) ==
  LET index == findIndex(ns, id)
  IN  IF index # 0
      THEN [found |-> TRUE,
            notes |-> [ns EXCEPT ![index].content = newContent,
                                 ![index].updatedAt = time]]
      ELSE [found |-> FALSE, notes |-> ns]

\* variant: an edit also refreshes the stored tags and confidence
StorageUpdateRefreshTags(cats, ns, id, newContent, time) ==
  LET index == findIndex(ns, id)
  IN  IF index # 0
      THEN LET categorization == categorize(cats, Str(newContent))
           IN  [found |-> TRUE,
                notes |-> [ns EXCEPT ![index].content = newContent,
                                     ![index].updatedAt = time,
                                     ![index].category =
                                        categorization.category,
                                     ![index].categoryIcon =
                                        categorization.icon,
                                     ![index].confidence =
                                        categorization.confidence,
                                     ![index].tags =
                                        extractTags(Str(newContent)).tags]]
      ELSE [found |-> FALSE, notes |-> ns]

\* Storage.update: the list to save, and found = FALSE when no note has the
\* id, in which case nothing is saved and false is returned
StorageUpdate(cats, ns, id, newContent, time) ==
  LET index == findIndex(ns, id)
  IN  IF index # 0
      THEN LET categorization == categorize(cats, Str(newContent))
           IN  [found |-> TRUE,
                notes |-> [ns EXCEPT ![index].content = newContent,
                                     ![index].updatedAt = time,
                                     ![index].category =
                                        categorization.category,
                                     ![index].categoryIcon =
                                        categorization.icon]]
      ELSE [found |-> FALSE, notes |-> ns]

RECURSIVE filterOut(_, _)
filterOut(ns, id) ==
  IF ns = <<>> THEN <<>>
  ELSE IF Head(ns).id # id THEN <<Head(ns)>> \o filterOut(Tail(ns), id)
       ELSE filterOut(Tail(ns), id)

\* Storage.delete: the list to save
StorageDelete(ns, id) == filterOut(ns, id)

(***************************************************************************)
(* App and UI handlers                                                     *)
(***************************************************************************)
\* App.saveThought; saved is the outcome of Storage.save, t1 and t2 are the
\* two readings of Date.now()
SaveThought ==
  \E value \in TextareaValues, saved \in BOOLEAN :
    LET content == trim(value)
        categorization == categorize(categories, Str(content))
        r == extractTags(Str(content))
    IN  IF content = <<>>
        THEN UNCHANGED vars
        ELSE /\ nextId <= MaxNotes
             /\ nextId' = nextId + 1
             /\ \E t1 \in Times, t2 \in Times :
                  notes' =
                    IF saved
                    THEN StorageAdd(notes,
                           [id |-> nextId,
                            content |-> content,
                            category |-> categorization.category,
                            categoryIcon |-> categorization.icon,
                            confidence |-> categorization.confidence,
                            tags |-> r.tags,
                            createdAt |-> t1,
                            updatedAt |-> t2])
                    ELSE notes
             /\ UNCHANGED <<coreVars, currentEditId>>

\* UI.openEditModal, from a click on the card of a note
OpenEditModal ==
  \E noteId \in 1..MaxNotes :
    /\ currentEditId' = IF findIndex(notes, noteId) # 0 THEN noteId
                        ELSE currentEditId
    /\ UNCHANGED <<coreVars, notes, nextId>>

\* UI.closeEditModal
CloseEditModal ==
  /\ currentEditId' = 0
  /\ UNCHANGED <<coreVars, notes, nextId>>

\* App.saveEdit
SaveEdit ==
  \E value \in TextareaValues, saved \in BOOLEAN, t \in Times :
    LET newContent == trim(value)
        r == StorageUpdate(categories, notes, currentEditId, newContent, t)
    IN  IF currentEditId = 0 \/ newContent = <<>>
        THEN UNCHANGED vars
        ELSE /\ notes' = IF saved /\ r.found THEN r.notes ELSE notes
             /\ currentEditId' = IF saved /\ r.found THEN 0
                                 ELSE currentEditId
             /\ UNCHANGED <<coreVars, nextId>>

\* App.deleteNote; confirmed is the answer to the confirm dialog
DeleteNote ==
  \E confirmed \in BOOLEAN, saved \in BOOLEAN :
    IF currentEditId = 0 \/ ~confirmed
    THEN UNCHANGED vars
    ELSE /\ notes' = IF saved THEN StorageDelete(notes, currentEditId)
                     ELSE notes
         /\ currentEditId' = IF saved THEN 0 ELSE currentEditId
         /\ UNCHANGED <<coreVars, nextId>>

\* Storage.delete run by another window of the app on the shared storage
ForeignDelete ==
  \E id \in 1..MaxNotes :
    /\ findIndex(notes, id) # 0
    /\ notes' = StorageDelete(notes, id)
    /\ UNCHANGED <<coreVars, currentEditId, nextId>>

AppNext ==
  \/ SaveThought
  \/ OpenEditModal
  \/ CloseEditModal
  \/ SaveEdit
  \/ DeleteNote
  \/ ForeignDelete

AppSpec == Init /\ [][AppNext]_vars

(***************************************************************************)
(* Properties                                                              *)
(***************************************************************************)
\* the argument of the recorded call is a non-empty string
IsText(v) == v.type = "string" /\ v.val # <<>>

IndexOf(cats, name) == CHOOSE i \in DOMAIN cats : cats[i].name = name

KeywordHits(categoryData, normalizedText) ==
  {k \in DOMAIN categoryData.keywords :
     includes(normalizedText, categoryData.keywords[k])}

PatternHits(categoryData, text) ==
  {p \in DOMAIN categoryData.patterns :
     test(Patterns[categoryData.patterns[p]], text)}

\* C1: whatever keywords have been added and whatever the input, categorize
\* returns a category that is a key of the table, with that category's icon,
\* and a confidence equal to min(bestScore / 15, 1), which lies in [0,1].
CategorizeResultInTable ==
  result.op = "categorize" =>
    LET r == result.value
        bestScore == SetMax({0} \cup {result.scores[i].score :
                                        i \in DOMAIN result.scores})
    IN  /\ r.category \in Keys(categories)
        /\ r.icon = categories[IndexOf(categories, r.category)].icon
        /\ r.confidence.den > 0
        /\ r.confidence.num * maxPossibleScore =
             (IF bestScore < maxPossibleScore THEN bestScore
              ELSE maxPossibleScore) * r.confidence.den
        /\ 0 <= r.confidence.num
        /\ r.confidence.num <= r.confidence.den

\* categorize has run on a grown table and the best score exceeds 15
CategorizeCappedAfterAdd ==
  /\ result.op = "categorize"
  /\ Added(categories) > 0
  /\ \E i \in DOMAIN result.scores :
       result.scores[i].score > maxPossibleScore
  /\ result.value.confidence.num = result.value.confidence.den

\* C2: for an empty string and for every value that is not a string,
\* categorize returns the fallback category notatka with the fallback icon
\* and confidence 0, and no category is scored.
GuardClauseFallback ==
  (result.op = "categorize" /\ ~IsText(result.args[1])) =>
    /\ ~result.thrown
    /\ result.value.category = notatka
    /\ result.value.icon = categories[IndexOf(categories, notatka)].icon
    /\ result.value.confidence.num = 0
    /\ result.scores = <<>>

\* categorize has returned for a truthy value that is not a string
CategorizeOfNumber ==
  /\ result.op = "categorize"
  /\ result.args[1] = Num(<<"5">>)
  /\ result.value.category = notatka

\* C3: no call of categorize, extractTags, getAllCategories or addKeyword
\* throws, whatever the arguments.
NeverThrows == result.op # "none" => ~result.thrown

\* C4: for a non-empty string the winner is the first category, in table
\* order, that has the highest score, and it is notatka with confidence 0
\* when no score is above 0.
SelectsFirstHighest ==
  (result.op = "categorize" /\ IsText(result.args[1])) =>
    LET sc  == result.scores
        top == SetMax({sc[i].score : i \in DOMAIN sc})
    IN  /\ Len(sc) = Len(categories)
        /\ \A i \in DOMAIN sc : sc[i].category = categories[i].name
        /\ IF top = 0
           THEN /\ result.value.category = notatka
                /\ result.value.confidence.num = 0
           ELSE \E i \in DOMAIN sc :
                  /\ sc[i].score = top
                  /\ \A j \in 1..(i - 1) : sc[j].score < top
                  /\ result.value.category = categories[i].name

\* two categories share the highest, nonzero score and the earlier one won
TieWonByEarlier ==
  /\ result.op = "categorize"
  /\ IsText(result.args[1])
  /\ \E i, j \in DOMAIN result.scores :
       /\ i < j
       /\ result.scores[i].score > 0
       /\ result.scores[i].score = result.scores[j].score
       /\ \A k \in DOMAIN result.scores :
            result.scores[k].score <= result.scores[i].score
       /\ result.value.category = categories[i].name

\* C5: for a non-empty string the score of each category is 2 for every
\* entry of its keyword list found in the lower-cased, trimmed text plus 3
\* for every one of its patterns that matches the text as given.
ScoreCountsEntriesAndPatterns ==
  (result.op = "categorize" /\ IsText(result.args[1])) =>
    LET text == result.args[1].val
        normalizedText == trim(toLowerCase(text))
    IN  \A i \in DOMAIN categories :
          result.scores[i].score =
            2 * Cardinality(KeywordHits(categories[i], normalizedText))
            + 3 * Cardinality(PatternHits(categories[i], text))

\* a text that differs from its normalized form scored a category through
\* a keyword and a pattern, and some pattern tells the two forms apart
ScoredOnBothForms ==
  /\ result.op = "categorize"
  /\ IsText(result.args[1])
  /\ LET text == result.args[1].val
         normalizedText == trim(toLowerCase(text))
     IN  /\ text # normalizedText
         /\ \E i \in DOMAIN categories :
              /\ KeywordHits(categories[i], normalizedText) # {}
              /\ PatternHits(categories[i], text) # {}
              /\ PatternHits(categories[i], text)
                   # PatternHits(categories[i], normalizedText)

\* C6: no call adds, removes or renames a category or changes an icon or a
\* pattern list, every keyword list keeps its contents as a prefix, and
\* categorize, extractTags and getAllCategories leave the table as it is.
TableOnlyGrowsKeywords ==
  [][ /\ Len(categories') = Len(categories)
      /\ \A i \in DOMAIN categories :
           /\ categories'[i].name = categories[i].name
           /\ categories'[i].icon = categories[i].icon
           /\ categories'[i].patterns = categories[i].patterns
           /\ Len(categories'[i].keywords) >= Len(categories[i].keywords)
           /\ SubSeq(categories'[i].keywords, 1,
                     Len(categories[i].keywords)) = categories[i].keywords
      /\ (result'.op \in {"categorize", "extractTags", "getAllCategories"}
            => categories' = categories) ]_vars

\* addKeyword has returned and two keywords have been appended so far
KeywordListGrewTwice ==
  /\ result.op = "addKeyword"
  /\ ~result.thrown
  /\ Added(categories) >= 2

\* C7: addKeyword with a category that is not a key of the table leaves the
\* table unchanged and does not throw.
UnknownCategoryIsNoOp ==
  [][ (result'.op = "addKeyword"
       /\ ToPropertyKey(result'.args[1]) \notin Keys(categories))
      => (categories' = categories /\ ~result'.thrown) ]_vars

\* C8: addKeyword(c, k) on a category of the table appends the lower-cased
\* k at the end of c's list, also when it is there already, and so raises
\* by 2 the score of c on every text whose normalized form contains it.
AppendRaisesScoreByTwo ==
  [][ (/\ result'.op = "addKeyword"
       /\ ToPropertyKey(result'.args[1]) \in Keys(categories)
       /\ result'.args[2].type = "string")
      => LET i == IndexOf(categories, ToPropertyKey(result'.args[1]))
             k == toLowerCase(result'.args[2].val)
         IN  /\ ~result'.thrown
             /\ categories'[i].keywords = Append(categories[i].keywords, k)
             /\ \A t \in Texts :
                  (t # <<>> /\ includes(trim(toLowerCase(t)), k))
                  => scoreOf(categories'[i], t, trim(toLowerCase(t)))
                       = scoreOf(categories[i], t, trim(toLowerCase(t))) + 2
    ]_vars

\* the same keyword has been appended twice in a row to one category
SameKeywordAppendedTwice ==
  /\ result.op = "addKeyword"
  /\ ~result.thrown
  /\ \E i \in DOMAIN categories :
       LET kws == categories[i].keywords
       IN  /\ Len(kws) >= Len(InitialCategories[i].keywords) + 2
           /\ kws[Len(kws)] = kws[Len(kws) - 1]
           /\ kws[Len(kws)] = toLowerCase(result.args[2].val)

\* C9: every stored note carries the category and the icon that categorize
\* returns for the note's current content, after any creations, edits and
\* deletions (the store never changes the category table).
NotesCarryCurrentCategory ==
  \A i \in DOMAIN notes :
    LET c == categorize(categories, Str(notes[i].content))
    IN  /\ notes[i].category = c.category
        /\ notes[i].categoryIcon = c.icon

\* a stored note has been edited into a content of another category
EditedNoteRecategorized ==
  \E i \in DOMAIN notes :
    /\ notes[i].updatedAt # notes[i].createdAt
    /\ notes[i].category # notatka
    /\ notes[i].tags # extractTags(Str(notes[i].content)).tags

\* the word-character runs that directly follow a # or an @ in text
MarkedRuns(text) ==
  {SubSeq(text, i + 1, j) :
     <<i, j>> \in {p \in (1..Len(text)) \X (1..Len(text)) :
                     /\ text[p[1]] \in {"#", "@"}
                     /\ p[1] < p[2]
                     /\ \A k \in (p[1] + 1)..p[2] : text[k] \in WordChar
                     /\ (p[2] = Len(text) \/ text[p[2] + 1] \notin WordChar)}}

\* C10: for a string, extractTags returns without throwing a list with no
\* duplicates whose values are exactly the word-character runs that follow
\* a # or an @, markers stripped; the list is empty when there is none.
TagsAreMarkedRuns ==
  (result.op = "extractTags" /\ result.args[1].type = "string") =>
    LET text == result.args[1].val
        tags == result.value
    IN  /\ ~result.thrown
        /\ \A a, b \in DOMAIN tags : a # b => tags[a] # tags[b]
        /\ Range(tags) = MarkedRuns(text)
        /\ ((text = <<>> \/ \A i \in DOMAIN text : text[i] \notin {"#", "@"})
              => tags = <<>>)

\* extractTags has returned several tags for a text that repeats one
RepeatedTagReturnedOnce ==
  /\ result.op = "extractTags"
  /\ result.args[1].type = "string"
  /\ Len(result.value) >= 2
  /\ LET text == result.args[1].val
     IN  \E i, j \in DOMAIN text :
           /\ i < j
           /\ text[i] = "#"
           /\ text[j] = "#"
           /\ j + 1 <= Len(text)
           /\ text[i + 1] = text[j + 1]
           /\ text[j + 1] \in WordChar

\* C11: a step of saveEdit, the caller of Storage.update, keeps the length
\* and the order of the stored list and every note other than the one with
\* the edited id; of that note it keeps id, createdAt, confidence and tags;
\* and when no note has the id the list is unchanged and update returns
\* false, so the edit modal stays open.
UpdateChangesOnlyEditedFields ==
  [][ SaveEdit =>
        LET index == findIndex(notes, currentEditId)
        IN  /\ Len(notes') = Len(notes)
            /\ \A i \in DOMAIN notes : i # index => notes'[i] = notes[i]
            /\ index # 0 =>
                 /\ notes'[index].id = notes[index].id
                 /\ notes'[index].createdAt = notes[index].createdAt
                 /\ notes'[index].confidence = notes[index].confidence
                 /\ notes'[index].tags = notes[index].tags
            /\ index = 0 =>
                 /\ notes' = notes
                 /\ currentEditId' = currentEditId
            /\ notes' # notes => currentEditId' = 0
    ]_vars

\* an edit has left a note with the tags and the confidence of its first
\* content, which are no longer those of its current content
EditLeftTagsAndConfidenceStale ==
  \E i \in DOMAIN notes :
    LET c == categorize(categories, Str(notes[i].content))
    IN  /\ notes[i].category = c.category
        /\ notes[i].confidence # c.confidence
        /\ notes[i].tags # extractTags(Str(notes[i].content)).tags
        /\ \E j \in DOMAIN notes : j # i
=============================================================================
